---- MODULE Spec2Model ----
(***************************************************************************)
(* Model of the BMB runtime memory layer:                                  *)
(*   - the vector of src/bmb/runtime/bmb_runtime.c (bmb_vec_ ...), whose   *)
(*     handle is the address of its storage block;                         *)
(*   - the managed string, its intern pool and the string builder of       *)
(*     src/runtime/runtime.c (bmb_string_ ..., bmb_chr, bmb_sb_ ...).      *)
(* Memory is modelled explicitly: a block is a sequence of words, an       *)
(* access outside a live block is undefined behaviour and is modelled as   *)
(* a nondeterministic choice (stale word, junk word, or a crash).          *)
(***************************************************************************)
EXTENDS Integers, Sequences, FiniteSets, TLC

VARIABLES
    heap,      \* vector storage: address -> [live, w]; w[1]=capacity, w[2]=length, w[3..]=data
    vec,       \* the handle (address) the caller holds, NULL before creation
    shadow,    \* history variable: the values the caller expects the vector to hold
    op,        \* name of the last operation executed
    arg,       \* its arguments
    ret,       \* its return value (0 for a void operation)
    ub,        \* some operation has executed undefined behaviour
    crashed,   \* the process has terminated abnormally
    strs,      \* every BmbString object allocated so far; its address is its index
    string_pool,  \* the addresses stored in string_pool[0 .. string_pool_count)
    builders,  \* builders[0 .. builder_count): the StringBuilder objects
    fbuf,      \* every fragment copy allocated so far: [data, live]; its address is its index
    pushed     \* history variable: per builder, the bytes of the strings pushed since
               \* its creation or its last clear, in order

vecvars == <<heap, vec, shadow>>
strvars == <<strs, string_pool, builders, fbuf, pushed>>
vars == <<heap, vec, shadow, op, arg, ret, ub, crashed, strs, string_pool, builders, fbuf, pushed>>

----------------------------------------------------------------------------
(* Bounds of the model *)

\* SpecVec offers a push while the expected length is below MaxPush
MaxPush == 4
\* SpecPush offers a push while the expected length is below VEC_DEFAULT_CAP + MaxGrown,
\* so that a vector created by bmb_vec_new grows
MaxGrown == 1
\* bmb_vec_with_capacity is called with cap in -MaxNegCap .. MaxCapArg
MaxCapArg == 2
MaxNegCap == 3
\* bmb_vec_get / bmb_vec_set are called with index in 0 .. MaxIdx
MaxIdx == 2

Values == {1, 2}
CapArgs == (0 - MaxNegCap)..MaxCapArg

\* string objects are created while fewer than MaxStrs exist
MaxStrs == 3
\* SpecImm calls the string functions while fewer than MaxImmStrs strings exist
MaxImmStrs == 2
\* a concatenation is offered while its result has at most MaxStrLen bytes
MaxStrLen == 2
\* fragment copies are created while fewer than MaxFrags exist
MaxFrags == 2
\* SpecSB creates fragment copies while fewer than MaxFragsOne exist, so that
\* the fragment table of its builder is grown twice
MaxFragsOne == 3
\* stands for MAX_STRINGS (65536 in the source): the ceiling of the intern pool
MAX_STRINGS == 2
\* stands for MAX_STRING_BUILDERS (1024 in the source): the ceiling of the builder table
MAX_STRING_BUILDERS == 2
\* stands for the initial fragment-table capacity (64 in the source)
SB_INITIAL_CAP == 1

\* NUL-terminated input buffers handed to bmb_string_new / bmb_string_from_cstr
CBuffers == {<<0>>, <<97, 0>>, <<97, 98, 0>>}
\* codes handed to bmb_chr; 354 does not fit a char
ChrCodes == {98, 354}

----------------------------------------------------------------------------
(* Raw memory *)

NULL == 0
Addr == {1, 2}
\* content of a word that was never written (malloc does not clear memory)
Uninit == 0 - 99
\* a word read back from memory the program does not own
Junk == 0 - 77

NoBlock == [live |-> FALSE, w |-> <<>>]

\* n fresh words (none when n <= 0)
Fresh(n) == [i \in 1..n |-> Uninit]

\* realloc: words w resized to n words, the common prefix kept, new words unwritten
Resize(w, n) == [i \in 1..n |-> IF i <= Len(w) THEN w[i] ELSE Uninit]

\* p[i] = v for a block of words w (i is 0-based); a store outside the block
\* does not change the block
Store(w, i, v) == IF i >= 0 /\ i < Len(w) THEN [w EXCEPT ![i + 1] = v] ELSE w

\* an address no allocation has returned yet
Unused(a) == ~heap[a].live /\ heap[a].w = <<>>
FreshAddr == CHOOSE a \in Addr : Unused(a) /\ \A b \in Addr : Unused(b) => a <= b

\* the handle refers to a live block that holds the two header words
HeaderOK == vec # NULL /\ heap[vec].live /\ Len(heap[vec].w) >= 2

\* word i (0-based) of the handle's block lies inside a live block
InBlock(i) == vec # NULL /\ heap[vec].live /\ i >= 0 /\ i < Len(heap[vec].w)

\* the values a load of ((int64_t*)vec)[i] can produce: the word itself when it
\* lies in the live block and was written; the stale word or junk when the
\* block was released; anything when the word was never written or lies
\* outside the block
ReadWord(i) ==
    IF InBlock(i) /\ heap[vec].w[i + 1] # Uninit
    THEN {heap[vec].w[i + 1]}
    ELSE IF vec # NULL /\ ~heap[vec].live /\ i >= 0 /\ i < Len(heap[vec].w)
            /\ heap[vec].w[i + 1] # Uninit
         THEN {heap[vec].w[i + 1], Junk}
         ELSE Values \cup {Junk}

\* the load is defined behaviour
ReadDefined(i) == InBlock(i) /\ heap[vec].w[i + 1] # Uninit

----------------------------------------------------------------------------
(* Vector: src/bmb/runtime/bmb_runtime.c *)

VEC_DEFAULT_CAP == 8
VEC_NEW_WORDS == 10
VEC_HEADER_WORDS == 2

\* the caller's record of the call just made
Called(name, a, r) == op' = name /\ arg' = a /\ ret' = r

\* a store or a call through a pointer the program does not own
Undefined(mayCrash) ==
    /\ ub' = TRUE
    /\ crashed' \in (IF mayCrash THEN BOOLEAN ELSE {crashed})

\* int64_t bmb_vec_new()
bmb_vec_new ==
    /\ UNCHANGED strvars
    /\ ~crashed /\ vec = NULL
    /\ shadow' = <<>>
    /\ \E ok \in BOOLEAN :
         IF ok
         THEN /\ heap' = [heap EXCEPT ![FreshAddr] =
                     [live |-> TRUE,
                      w |-> Store(Store(Fresh(VEC_NEW_WORDS), 0, VEC_DEFAULT_CAP), 1, 0)]]
              /\ vec' = FreshAddr
              /\ Called("new", <<>>, FreshAddr)
              /\ UNCHANGED <<ub, crashed>>
         ELSE \* malloc returned NULL and vec[0] is stored through it
              /\ UNCHANGED <<heap, vec>>
              /\ Called("new", <<>>, NULL)
              /\ ub' = TRUE /\ crashed' = TRUE

\* number of words malloc((cap + 2) * sizeof(int64_t)) provides; a negative
\* product converts to a size no allocation can satisfy
WithCapWords(cap) == cap + VEC_HEADER_WORDS

\* the header bmb_vec_with_capacity writes into a block of n words
WithCapBlock(cap, n) == Store(Store(Fresh(n), 0, cap), 1, 0)

\* int64_t bmb_vec_with_capacity(int64_t cap)
bmb_vec_with_capacity(cap) ==
    /\ UNCHANGED strvars
    /\ ~crashed /\ vec = NULL
    /\ shadow' = <<>>
    /\ \E ok \in BOOLEAN :
         IF ok /\ WithCapWords(cap) >= 0
         THEN /\ heap' = [heap EXCEPT ![FreshAddr] =
                     [live |-> TRUE, w |-> WithCapBlock(cap, WithCapWords(cap))]]
              /\ vec' = FreshAddr
              /\ Called("with_capacity", <<cap>>, FreshAddr)
              \* with fewer than two words the header stores leave the block
              /\ ub' = (ub \/ WithCapWords(cap) < VEC_HEADER_WORDS)
              /\ UNCHANGED crashed
         ELSE \* malloc returned NULL and vec[0] is stored through it
              /\ UNCHANGED <<heap, vec>>
              /\ Called("with_capacity", <<cap>>, NULL)
              /\ ub' = TRUE /\ crashed' = TRUE

\* if (len >= cap)
NeedsGrow(len, cap) == len >= cap

\* int64_t new_cap = cap * 2
GrowCap(cap) == cap * 2

\* the block after bmb_vec_push stored through new_vec / vec: resized to n words
\* when grown, capacity word rewritten, value stored at 2 + len, length len + 1
PushWords(w, value) ==
    LET cap == w[1]
        len == w[2]
        g   == IF NeedsGrow(len, cap)
               THEN Store(Resize(w, GrowCap(cap) + VEC_HEADER_WORDS), 0, GrowCap(cap))
               ELSE w
    IN  Store(Store(g, VEC_HEADER_WORDS + len, value), 1, len + 1)

\* the store vec[2 + len] = value of bmb_vec_push leaves the block
PushOverflows(w) ==
    LET cap == w[1]
        len == w[2]
        n   == IF NeedsGrow(len, cap) THEN GrowCap(cap) + VEC_HEADER_WORDS ELSE Len(w)
    IN  VEC_HEADER_WORDS + len >= n

\* void bmb_vec_push(int64_t vec_ptr, int64_t value)
bmb_vec_push(value) ==
    /\ UNCHANGED strvars
    /\ ~crashed /\ vec # NULL
    /\ shadow' = Append(shadow, value)
    /\ Called("push", <<value>>, 0)
    /\ vec' = vec
    /\ IF HeaderOK
       THEN LET w == heap[vec].w IN
            IF NeedsGrow(w[2], w[1])
            THEN \E outcome \in {"failed", "inplace", "moved"} :
                   CASE outcome = "failed" ->
                          \* realloc returned NULL and new_vec[0] is stored through it
                          /\ UNCHANGED heap
                          /\ ub' = TRUE /\ crashed' = TRUE
                     [] outcome = "inplace" ->
                          /\ heap' = [heap EXCEPT ![vec].w = PushWords(w, value)]
                          /\ ub' = (ub \/ PushOverflows(w))
                          /\ UNCHANGED crashed
                     [] outcome = "moved" ->
                          \* the block is copied to a new address and the old one
                          \* released; the caller keeps the old address
                          /\ heap' = [heap EXCEPT ![vec].live = FALSE,
                                                  ![FreshAddr] = [live |-> TRUE,
                                                                  w |-> PushWords(w, value)]]
                          /\ ub' = (ub \/ PushOverflows(w))
                          /\ UNCHANGED crashed
            ELSE /\ heap' = [heap EXCEPT ![vec].w = PushWords(w, value)]
                 /\ ub' = (ub \/ PushOverflows(w))
                 /\ UNCHANGED crashed
       ELSE \* the header is read and written outside a live block
            /\ UNCHANGED heap
            /\ Undefined(TRUE)

\* the block after bmb_vec_pop: length decremented unless it is 0
PopWords(w) == IF w[2] = 0 THEN w ELSE Store(w, 1, w[2] - 1)

\* int64_t bmb_vec_pop(int64_t vec_ptr)
bmb_vec_pop ==
    /\ UNCHANGED strvars
    /\ ~crashed /\ vec # NULL
    /\ shadow' = IF shadow = <<>> THEN shadow ELSE SubSeq(shadow, 1, Len(shadow) - 1)
    /\ vec' = vec
    /\ UNCHANGED crashed
    /\ IF HeaderOK
       THEN LET w == heap[vec].w IN
            /\ heap' = [heap EXCEPT ![vec].w = PopWords(w)]
            /\ IF w[2] = 0
               THEN Called("pop", <<>>, 0) /\ UNCHANGED ub
               ELSE /\ \E r \in ReadWord(VEC_HEADER_WORDS + w[2] - 1) : Called("pop", <<>>, r)
                    /\ ub' = (ub \/ ~ReadDefined(VEC_HEADER_WORDS + w[2] - 1))
       ELSE \* the length is loaded from memory outside a live block
            /\ UNCHANGED heap
            /\ ub' = TRUE
            /\ \E len \in ReadWord(1) :
                 IF len = 0
                 THEN Called("pop", <<>>, 0)
                 ELSE \E r \in ReadWord(VEC_HEADER_WORDS + len - 1) : Called("pop", <<>>, r)

\* int64_t bmb_vec_get(int64_t vec_ptr, int64_t index)
bmb_vec_get(index) ==
    /\ UNCHANGED strvars
    /\ ~crashed /\ vec # NULL
    /\ \E r \in ReadWord(VEC_HEADER_WORDS + index) : Called("get", <<index>>, r)
    /\ ub' = (ub \/ ~ReadDefined(VEC_HEADER_WORDS + index))
    /\ UNCHANGED <<heap, vec, shadow, crashed>>

\* void bmb_vec_set(int64_t vec_ptr, int64_t index, int64_t value)
bmb_vec_set(index, value) ==
    /\ UNCHANGED strvars
    /\ ~crashed /\ vec # NULL
    /\ Called("set", <<index, value>>, 0)
    /\ shadow' = IF index < Len(shadow) THEN [shadow EXCEPT ![index + 1] = value] ELSE shadow
    /\ IF InBlock(VEC_HEADER_WORDS + index)
       THEN /\ heap' = [heap EXCEPT ![vec].w = Store(@, VEC_HEADER_WORDS + index, value)]
            /\ UNCHANGED ub
       ELSE /\ UNCHANGED heap
            /\ ub' = TRUE
    /\ UNCHANGED <<vec, crashed>>

\* int64_t bmb_vec_len(int64_t vec_ptr)
bmb_vec_len ==
    /\ UNCHANGED strvars
    /\ ~crashed /\ vec # NULL
    /\ \E r \in ReadWord(1) : Called("len", <<>>, r)
    /\ ub' = (ub \/ ~ReadDefined(1))
    /\ UNCHANGED <<heap, vec, shadow, crashed>>

\* int64_t bmb_vec_cap(int64_t vec_ptr)
bmb_vec_cap ==
    /\ UNCHANGED strvars
    /\ ~crashed /\ vec # NULL
    /\ \E r \in ReadWord(0) : Called("cap", <<>>, r)
    /\ ub' = (ub \/ ~ReadDefined(0))
    /\ UNCHANGED <<heap, vec, shadow, crashed>>

\* mutant: clear also resets the capacity word
ClearWordsResetsCap(w) == Store(Store(w, 1, 0), 0, 0)

\* the block after bmb_vec_clear: vec[1] = 0
ClearWords(w) == Store(w, 1, 0)

\* void bmb_vec_clear(int64_t vec_ptr)
bmb_vec_clear ==
    /\ UNCHANGED strvars
    /\ ~crashed /\ vec # NULL
    /\ Called("clear", <<>>, 0)
    /\ shadow' = <<>>
    /\ IF InBlock(1)
       THEN /\ heap' = [heap EXCEPT ![vec].w = ClearWords(@)]
            /\ UNCHANGED ub
       ELSE /\ UNCHANGED heap
            /\ ub' = TRUE
    /\ UNCHANGED <<vec, crashed>>

----------------------------------------------------------------------------
(* ManagedString and intern pool: src/runtime/runtime.c *)

\* a byte loaded from outside the buffer it was meant to come from
JunkByte == 0 - 1

\* memcpy(dst, src + off, n): the n bytes copied out of buffer src
Memcpy(src, off, n) ==
    [i \in 1..n |-> IF off + i >= 1 /\ off + i <= Len(src) THEN src[off + i] ELSE JunkByte]

\* the C string "" as a buffer
EmptyCStr == <<0>>

\* strlen(cstr): the number of bytes before the first NUL
Strlen(cstr) == (CHOOSE i \in 1..Len(cstr) : cstr[i] = 0 /\ \A j \in 1..(i - 1) : cstr[j] # 0) - 1

\* the object bmb_string_new(data, len) allocates: len bytes copied, a
\* terminator appended, cap = len + 1
StringNew(data, len) ==
    [data |-> Memcpy(data, 0, len) \o <<0>>, len |-> len, cap |-> len + 1]

\* mutant: the bound test admits one entry too many
PoolAddOffByOne(pool, s) == IF Len(pool) <= MAX_STRINGS THEN Append(pool, s) ELSE pool

\* mutant: the bound test stops one entry early
PoolAddStopsEarly(pool, s) == IF Len(pool) + 1 < MAX_STRINGS THEN Append(pool, s) ELSE pool

\* if (string_pool_count < MAX_STRINGS) string_pool[string_pool_count++] = s;
PoolAdd(pool, s) == IF Len(pool) < MAX_STRINGS THEN Append(pool, s) ELSE pool

\* the common end of every producing operation: the object obj is allocated at
\* the next address, registered in the pool and returned; undef tells that
\* building obj read memory the program does not own
Produce(name, a, obj, undef) ==
    /\ ~crashed
    /\ UNCHANGED vecvars
    /\ UNCHANGED <<builders, fbuf, pushed>>
    /\ \E ok \in BOOLEAN :
         IF ok
         THEN /\ strs' = Append(strs, obj)
              /\ string_pool' = PoolAdd(string_pool, Len(strs) + 1)
              /\ Called(name, a, Len(strs) + 1)
              /\ ub' = (ub \/ undef)
              /\ UNCHANGED crashed
         ELSE \* malloc returned NULL and the object is initialised through it
              /\ UNCHANGED <<strs, string_pool>>
              /\ Called(name, a, NULL)
              /\ ub' = TRUE /\ crashed' = TRUE

\* what a BmbString* denotes: the object at address s, or Absent for NULL
Absent == [absent |-> TRUE]
Obj(s) == IF s = NULL THEN Absent ELSE strs[s]

\* BmbString* bmb_string_new(const char* data, int64_t len)
bmb_string_new(data, len) == Produce("string_new", <<data, len>>, StringNew(data, len), FALSE)

\* BmbString* bmb_string_from_cstr(const char* cstr)
bmb_string_from_cstr(cstr) ==
    Produce("from_cstr", <<cstr>>, StringNew(cstr, Strlen(cstr)), FALSE)

\* int64_t bmb_string_len(BmbString* s)
bmb_string_len(s) == IF s # Absent THEN s.len ELSE 0

\* int64_t bmb_string_char_at(BmbString* s, int64_t idx); the bytes of the
\* model are the values of unsigned char
bmb_string_char_at(s, idx) ==
    IF s = Absent \/ idx < 0 \/ idx >= s.len THEN 0 ELSE s.data[idx + 1]

\* if (start < 0) start = 0;
SliceStart(start) == IF start < 0 THEN 0 ELSE start

\* mutant: end is not clamped to the length
SliceEndNoClamp(len, end) == end

\* if (end > s->len) end = s->len;
SliceEnd(len, end) == IF end > len THEN len ELSE end

\* the object bmb_string_slice(s, start, end) returns
SliceObj(s, start, end) ==
    IF s = Absent THEN StringNew(EmptyCStr, 0)
    ELSE LET st == SliceStart(start)
             en == SliceEnd(s.len, end)
         IN  IF st >= en THEN StringNew(EmptyCStr, 0)
             ELSE [data |-> Memcpy(s.data, st, en - st) \o <<0>>,
                   len |-> en - st, cap |-> en - st + 1]

\* BmbString* bmb_string_slice(BmbString* s, int64_t start, int64_t end)
bmb_string_slice(s, start, end) ==
    Produce("slice", <<s, start, end>>, SliceObj(Obj(s), start, end), FALSE)

\* mutant: the second memcpy copies a->len bytes of b
ConcatObjWrongLen(a, b) ==
    IF a = Absent /\ b = Absent THEN StringNew(EmptyCStr, 0)
    ELSE IF a = Absent THEN StringNew(b.data, b.len)
    ELSE IF b = Absent THEN StringNew(a.data, a.len)
    ELSE LET newlen == a.len + b.len
         IN  [data |-> Memcpy(a.data, 0, a.len) \o Memcpy(b.data, 0, a.len) \o <<0>>,
              len |-> newlen, cap |-> newlen + 1]

\* the object bmb_string_concat(a, b) returns
ConcatObj(a, b) ==
    IF a = Absent /\ b = Absent THEN StringNew(EmptyCStr, 0)
    ELSE IF a = Absent THEN StringNew(b.data, b.len)
    ELSE IF b = Absent THEN StringNew(a.data, a.len)
    ELSE LET newlen == a.len + b.len
         IN  [data |-> Memcpy(a.data, 0, a.len) \o Memcpy(b.data, 0, b.len) \o <<0>>,
              len |-> newlen, cap |-> newlen + 1]

\* mutant: concat appends the bytes of b to the buffer of a and returns a
bmb_string_concat_in_place(a, b) ==
    IF a = NULL
    THEN Produce("concat", <<a, b>>, ConcatObj(Obj(a), Obj(b)), FALSE)
    ELSE /\ ~crashed
         /\ strs' = [strs EXCEPT ![a] = ConcatObj(Obj(a), Obj(b))]
         /\ Called("concat", <<a, b>>, a)
         /\ UNCHANGED vecvars
         /\ UNCHANGED <<string_pool, builders, fbuf, pushed, ub, crashed>>

\* BmbString* bmb_string_concat(BmbString* a, BmbString* b)
bmb_string_concat(a, b) == Produce("concat", <<a, b>>, ConcatObj(Obj(a), Obj(b)), FALSE)

\* mutant: the lengths are not compared; memcmp runs over a->len bytes
bmb_string_eq_no_len(a, b) ==
    IF a = Absent /\ b = Absent THEN TRUE
    ELSE IF a = Absent \/ b = Absent THEN FALSE
    ELSE Memcpy(a.data, 0, a.len) = Memcpy(b.data, 0, a.len)

\* int64_t bmb_string_eq(BmbString* a, BmbString* b), as a boolean
bmb_string_eq(a, b) ==
    IF a = Absent /\ b = Absent THEN TRUE
    ELSE IF a = Absent \/ b = Absent THEN FALSE
    ELSE IF a.len # b.len THEN FALSE
    ELSE Memcpy(a.data, 0, a.len) = Memcpy(b.data, 0, a.len)

\* int64_t bmb_ord(BmbString* s)
bmb_ord(s) == IF s = Absent \/ s.len = 0 THEN 0 ELSE s.data[1]

\* the common end of every operation that only reads strings: it returns r
Returns(name, a, r) ==
    /\ ~crashed
    /\ Called(name, a, r)
    /\ UNCHANGED vecvars
    /\ UNCHANGED strvars
    /\ UNCHANGED <<ub, crashed>>

\* char buf[2] = { (char)code, '\0' }
ChrBuf(code) == <<code % 256, 0>>

\* BmbString* bmb_chr(int64_t code)
bmb_chr(code) == Produce("chr", <<code>>, StringNew(ChrBuf(code), 1), FALSE)

----------------------------------------------------------------------------
(* StringBuilder: src/runtime/runtime.c *)

\* a table pointer that is NULL: no word can be accessed through it
NoTable == <<>>

\* the StringBuilder bmb_sb_new allocates; fOK and lOK tell whether the malloc
\* of the fragment table and of the length table returned a block
NewBuilder(fOK, lOK) ==
    [fragments |-> IF fOK THEN Fresh(SB_INITIAL_CAP) ELSE NoTable,
     lengths |-> IF lOK THEN Fresh(SB_INITIAL_CAP) ELSE NoTable,
     count |-> 0, capacity |-> SB_INITIAL_CAP]

\* if (handle < 0 || handle >= builder_count)
BadHandle(handle) == handle < 0 \/ handle >= Len(builders)

\* mutant: the ceiling test admits one builder too many
TableFullOffByOne == Len(builders) > MAX_STRING_BUILDERS

\* if (builder_count >= MAX_STRING_BUILDERS) return -1;
TableFull == Len(builders) >= MAX_STRING_BUILDERS

\* int64_t bmb_sb_new(void)
bmb_sb_new ==
    /\ ~crashed
    /\ UNCHANGED vecvars
    /\ UNCHANGED <<strs, string_pool, fbuf>>
    /\ IF TableFull
       THEN /\ Called("sb_new", <<>>, 0 - 1)
            /\ UNCHANGED <<builders, pushed, ub, crashed>>
       ELSE \E sbOK \in BOOLEAN, fOK \in BOOLEAN, lOK \in BOOLEAN :
              IF sbOK
              THEN \* a table pointer is stored as malloc returned it, NULL included
                   /\ builders' = Append(builders, NewBuilder(fOK, lOK))
                   /\ pushed' = Append(pushed, <<>>)
                   /\ Called("sb_new", <<>>, Len(builders))
                   /\ UNCHANGED <<ub, crashed>>
              ELSE \* malloc returned NULL and the builder is initialised through it
                   /\ UNCHANGED <<builders, pushed>>
                   /\ Called("sb_new", <<>>, NULL)
                   /\ ub' = TRUE /\ crashed' = TRUE

\* mutant: the table is grown one push before it is full
SbGrowEarly(sb) ==
    IF sb.count + 1 >= sb.capacity
    THEN [sb EXCEPT !.capacity = sb.capacity * 2,
                    !.fragments = Resize(sb.fragments, sb.capacity * 2),
                    !.lengths = Resize(sb.lengths, sb.capacity * 2)]
    ELSE sb

\* the builder after the growth step of bmb_sb_push
SbGrow(sb) ==
    IF sb.count >= sb.capacity
    THEN [sb EXCEPT !.capacity = sb.capacity * 2,
                    !.fragments = Resize(sb.fragments, sb.capacity * 2),
                    !.lengths = Resize(sb.lengths, sb.capacity * 2)]
    ELSE sb

\* the builder after bmb_sb_push stored the copy at address id, of len bytes
SbAppend(sb, id, len) ==
    [SbGrow(sb) EXCEPT !.fragments = Store(@, sb.count, id),
                       !.lengths = Store(@, sb.count, len),
                       !.count = sb.count + 1]

\* the stores sb->fragments[sb->count] and sb->lengths[sb->count] of
\* bmb_sb_push land inside the two tables
SlotInTables(sb) ==
    /\ sb.count < Len(SbGrow(sb).fragments)
    /\ sb.count < Len(SbGrow(sb).lengths)

\* int64_t bmb_sb_push(int64_t handle, BmbString* s)
bmb_sb_push(handle, s) ==
    /\ ~crashed
    /\ UNCHANGED vecvars
    /\ UNCHANGED <<strs, string_pool>>
    /\ IF BadHandle(handle) \/ s = NULL
       THEN /\ Called("sb_push", <<handle, s>>, 0 - 1)
            /\ UNCHANGED <<builders, fbuf, pushed, ub, crashed>>
       ELSE \E ok \in BOOLEAN :
                 IF ok /\ SlotInTables(builders[handle + 1])
                 THEN /\ fbuf' = Append(fbuf,
                             [data |-> Memcpy(strs[s].data, 0, strs[s].len) \o <<0>>,
                              live |-> TRUE])
                      /\ builders' = [builders EXCEPT ![handle + 1] =
                             SbAppend(@, Len(fbuf) + 1, strs[s].len)]
                      /\ pushed' = [pushed EXCEPT ![handle + 1] =
                             Append(@, SubSeq(strs[s].data, 1, strs[s].len))]
                      /\ Called("sb_push", <<handle, s>>, 0)
                      /\ UNCHANGED <<ub, crashed>>
                 ELSE \* realloc or malloc returned NULL, or a table pointer is
                      \* NULL, and the fragment is stored through it
                      /\ UNCHANGED <<builders, fbuf, pushed>>
                      /\ Called("sb_push", <<handle, s>>, 0)
                      /\ ub' = TRUE /\ crashed' = TRUE

\* total += sb->lengths[i] for i < n
RECURSIVE SumLengths(_, _)
SumLengths(sb, n) == IF n <= 0 THEN 0 ELSE SumLengths(sb, n - 1) + sb.lengths[n]

\* the value bmb_sb_len(handle) returns
SbLen(handle) ==
    IF BadHandle(handle) THEN 0 ELSE SumLengths(builders[handle + 1], builders[handle + 1].count)

\* int64_t bmb_sb_len(int64_t handle)
bmb_sb_len(handle) ==
    /\ ~crashed
    /\ Called("sb_len", <<handle>>, SbLen(handle))
    /\ UNCHANGED vecvars
    /\ UNCHANGED <<strs, string_pool, builders, fbuf, pushed, ub, crashed>>

\* mutant: each fragment is copied in front of the ones copied before
RECURSIVE BuildBytesReversed(_, _)
BuildBytesReversed(sb, n) ==
    IF n <= 0 THEN <<>>
    ELSE Memcpy(fbuf[sb.fragments[n]].data, 0, sb.lengths[n]) \o BuildBytesReversed(sb, n - 1)

\* the bytes the copy loop of bmb_sb_build has written after n fragments
RECURSIVE BuildBytes(_, _)
BuildBytes(sb, n) ==
    IF n <= 0 THEN <<>>
    ELSE BuildBytes(sb, n - 1) \o Memcpy(fbuf[sb.fragments[n]].data, 0, sb.lengths[n])

\* the object bmb_sb_build(handle) returns
BuildObj(handle) ==
    IF BadHandle(handle) THEN StringNew(EmptyCStr, 0)
    ELSE LET sb == builders[handle + 1]
         IN  [data |-> BuildBytes(sb, sb.count) \o <<0>>,
              len |-> SbLen(handle), cap |-> SbLen(handle) + 1]

\* bmb_sb_build copies out of a fragment that was released
BuildReadsFreed(handle) ==
    /\ ~BadHandle(handle)
    /\ \E i \in 1..builders[handle + 1].count : ~fbuf[builders[handle + 1].fragments[i]].live

\* mutant: build empties the builder it has built
bmb_sb_build_consumes(handle) ==
    /\ ~crashed
    /\ UNCHANGED vecvars
    /\ strs' = Append(strs, BuildObj(handle))
    /\ string_pool' = PoolAdd(string_pool, Len(strs) + 1)
    /\ builders' = IF BadHandle(handle) THEN builders
                   ELSE [builders EXCEPT ![handle + 1].count = 0]
    /\ Called("sb_build", <<handle>>, Len(strs) + 1)
    /\ UNCHANGED <<fbuf, pushed, ub, crashed>>

\* BmbString* bmb_sb_build(int64_t handle)
bmb_sb_build(handle) ==
    Produce("sb_build", <<handle>>, BuildObj(handle), BuildReadsFreed(handle))

\* the addresses bmb_sb_clear passes to free
ClearFrees(sb) == {sb.fragments[i] : i \in 1..sb.count}

\* mutant: clear releases the fragments and keeps the count
SbClearedKeepsCount(sb) == sb

\* mutant: clear also resets the capacity to its initial value
SbClearedShrinks(sb) == [sb EXCEPT !.count = 0, !.capacity = SB_INITIAL_CAP]

\* sb->count = 0
SbCleared(sb) == [sb EXCEPT !.count = 0]

\* mutant: an invalid handle is reported as success
bmb_sb_clear_accepts(handle) ==
    /\ ~crashed
    /\ UNCHANGED vecvars
    /\ UNCHANGED <<strs, string_pool, crashed>>
    /\ Called("sb_clear", <<handle>>, 0)
    /\ IF BadHandle(handle)
       THEN UNCHANGED <<builders, fbuf, pushed, ub>>
       ELSE LET sb == builders[handle + 1] IN
            /\ fbuf' = [i \in 1..Len(fbuf) |->
                          IF i \in ClearFrees(sb) THEN [fbuf[i] EXCEPT !.live = FALSE]
                          ELSE fbuf[i]]
            /\ builders' = [builders EXCEPT ![handle + 1] = SbCleared(@)]
            /\ pushed' = [pushed EXCEPT ![handle + 1] = <<>>]
            /\ ub' = (ub \/ \E i \in ClearFrees(sb) : ~fbuf[i].live)

\* int64_t bmb_sb_clear(int64_t handle)
bmb_sb_clear(handle) ==
    /\ ~crashed
    /\ UNCHANGED vecvars
    /\ UNCHANGED <<strs, string_pool, crashed>>
    /\ IF BadHandle(handle)
       THEN /\ Called("sb_clear", <<handle>>, 0 - 1)
            /\ UNCHANGED <<builders, fbuf, pushed, ub>>
       ELSE LET sb == builders[handle + 1] IN
            /\ fbuf' = [i \in 1..Len(fbuf) |->
                          IF i \in ClearFrees(sb) THEN [fbuf[i] EXCEPT !.live = FALSE]
                          ELSE fbuf[i]]
            /\ builders' = [builders EXCEPT ![handle + 1] = SbCleared(@)]
            /\ pushed' = [pushed EXCEPT ![handle + 1] = <<>>]
            /\ ub' = (ub \/ \E i \in ClearFrees(sb) : ~fbuf[i].live)
            /\ Called("sb_clear", <<handle>>, 0)

----------------------------------------------------------------------------
(* Specifications *)

Init ==
    /\ heap = [a \in Addr |-> NoBlock]
    /\ vec = NULL
    /\ shadow = <<>>
    /\ op = "init" /\ arg = <<>> /\ ret = 0
    /\ ub = FALSE /\ crashed = FALSE
    /\ strs = <<>> /\ string_pool = <<>>
    /\ builders = <<>> /\ fbuf = <<>> /\ pushed = <<>>

\* a program that creates a vector with bmb_vec_new and only pushes and reads
NextPush ==
    \/ bmb_vec_new
    \/ \E v \in Values : Len(shadow) < VEC_DEFAULT_CAP + MaxGrown /\ bmb_vec_push(v)
    \/ \E i \in 0..(Len(shadow) - 1) : bmb_vec_get(i)
    \/ bmb_vec_len

SpecPush == Init /\ [][NextPush]_vars

\* a program that uses every vector operation
NextVec ==
    \/ bmb_vec_new
    \/ \E c \in CapArgs : bmb_vec_with_capacity(c)
    \/ \E v \in Values : Len(shadow) < MaxPush /\ bmb_vec_push(v)
    \/ bmb_vec_pop
    \/ \E i \in 0..MaxIdx : bmb_vec_get(i)
    \/ \E i \in 0..MaxIdx, v \in Values : bmb_vec_set(i, v)
    \/ bmb_vec_len
    \/ bmb_vec_cap
    \/ bmb_vec_clear

SpecVec == Init /\ [][NextVec]_vars

StrRefs == 0..Len(strs)
SliceArgs == (0 - 1)..(MaxStrLen + 1)
HandleArgs == (0 - 1)..MAX_STRING_BUILDERS

\* the calls of each string function a program can make
NewCalls == \E d \in CBuffers : \E n \in 0..Strlen(d) : bmb_string_new(d, n)
FromCstrCalls == \E d \in CBuffers : bmb_string_from_cstr(d)
SliceCalls ==
    \E s \in StrRefs : \E st \in SliceArgs : \E en \in SliceArgs : bmb_string_slice(s, st, en)
ConcatCalls ==
    \E a \in StrRefs : \E b \in StrRefs :
        /\ bmb_string_len(Obj(a)) + bmb_string_len(Obj(b)) <= MaxStrLen
        /\ bmb_string_concat(a, b)
ChrCalls == \E c \in ChrCodes : bmb_chr(c)

\* the calls of the functions that only read strings
EqCalls ==
    \E a \in StrRefs : \E b \in StrRefs :
        Returns("string_eq", <<a, b>>, IF bmb_string_eq(Obj(a), Obj(b)) THEN 1 ELSE 0)
CharAtCalls ==
    \E s \in StrRefs : \E i \in SliceArgs :
        Returns("char_at", <<s, i>>, bmb_string_char_at(Obj(s), i))
OrdCalls == \E s \in StrRefs : Returns("ord", <<s>>, bmb_ord(Obj(s)))

\* a program that uses the strings only
NextStr ==
    \/ Len(strs) < MaxStrs /\ NewCalls
    \/ Len(strs) < MaxStrs /\ FromCstrCalls
    \/ Len(strs) < MaxStrs /\ SliceCalls
    \/ Len(strs) < MaxStrs /\ ConcatCalls
    \/ Len(strs) < MaxStrs /\ ChrCalls

SpecStr == Init /\ [][NextStr]_vars

\* a program that fills the intern pool and goes one string beyond its
\* ceiling, through the string functions and through builders that hold one
\* fragment
NextPool ==
    \/ Len(strs) <= MAX_STRINGS /\ NewCalls
    \/ Len(strs) <= MAX_STRINGS /\ FromCstrCalls
    \/ Len(strs) <= MAX_STRINGS /\ SliceCalls
    \/ Len(strs) <= MAX_STRINGS /\ ConcatCalls
    \/ Len(strs) <= MAX_STRINGS /\ ChrCalls
    \/ builders = <<>> /\ bmb_sb_new
    \/ \E h \in 0..(Len(builders) - 1) : \E s \in 1..Len(strs) :
          fbuf = <<>> /\ bmb_sb_push(h, s)
    \/ \E h \in (0 - 1)..0 : Len(strs) <= MAX_STRINGS /\ bmb_sb_build(h)

SpecPool == Init /\ [][NextPool]_vars

Handles == 0..(Len(builders) - 1)

\* a program that creates one builder and uses it on strings made from literals
NextSB ==
    \/ Len(strs) < MaxStrs /\ FromCstrCalls
    \/ builders = <<>> /\ bmb_sb_new
    \/ \E h \in Handles : \E s \in 1..Len(strs) : Len(fbuf) < MaxFragsOne /\ bmb_sb_push(h, s)
    \/ \E h \in Handles : bmb_sb_len(h)
    \/ \E h \in Handles : Len(strs) < MaxStrs /\ bmb_sb_build(h)
    \/ \E h \in Handles : bmb_sb_clear(h)

SpecSB == Init /\ [][NextSB]_vars

\* a program that uses every string function on a few strings, and a
\* builder that holds one fragment
NextImm ==
    \/ Len(strs) < MaxImmStrs /\ FromCstrCalls
    \/ Len(strs) < MaxImmStrs /\ \E s \in 1..Len(strs) : bmb_string_slice(s, 0, 1)
    \/ Len(strs) < MaxImmStrs /\ ConcatCalls
    \/ Len(strs) < MaxImmStrs /\ ChrCalls
    \/ \E a \in 1..Len(strs) : \E b \in 1..Len(strs) :
          Returns("string_eq", <<a, b>>, IF bmb_string_eq(Obj(a), Obj(b)) THEN 1 ELSE 0)
    \/ \E s \in 1..Len(strs) : Returns("char_at", <<s, 0>>, bmb_string_char_at(Obj(s), 0))
    \/ builders = <<>> /\ bmb_sb_new
    \/ \E h \in Handles : \E s \in 1..Len(strs) : fbuf = <<>> /\ bmb_sb_push(h, s)
    \/ \E h \in Handles : Len(strs) < MaxStrs /\ bmb_sb_build(h)
    \/ \E h \in Handles : bmb_sb_clear(h)

SpecImm == Init /\ [][NextImm]_vars

\* a program that makes strings from literals and character codes and
\* compares and inspects them
NextEq ==
    \/ Len(strs) < MaxStrs /\ FromCstrCalls
    \/ Len(strs) < MaxStrs /\ ChrCalls
    \/ EqCalls
    \/ CharAtCalls
    \/ OrdCalls

SpecEq == Init /\ [][NextEq]_vars

\* a program that fills the builder table and uses every builder on the
\* string made from the literal "ab"
NextSBs ==
    \/ strs = <<>> /\ bmb_string_from_cstr(<<97, 98, 0>>)
    \/ bmb_sb_new
    \/ \E h \in Handles : \E s \in 1..Len(strs) : Len(fbuf) < MaxFrags /\ bmb_sb_push(h, s)
    \/ \E h \in Handles : Len(strs) < MaxImmStrs /\ bmb_sb_build(h)
    \/ \E h \in Handles : bmb_sb_clear(h)

SpecSBs == Init /\ [][NextSBs]_vars

\* a program that also hands the builder functions handles it never obtained
\* and absent strings; its builders hold one fragment between them
NextSBArgs ==
    \/ strs = <<>> /\ FromCstrCalls
    \/ bmb_sb_new
    \/ \E h \in HandleArgs : \E s \in StrRefs :
          (fbuf = <<>> \/ BadHandle(h) \/ s = NULL) /\ bmb_sb_push(h, s)
    \/ \E h \in HandleArgs : bmb_sb_len(h)
    \/ \E h \in HandleArgs : Len(strs) < MaxStrs /\ bmb_sb_build(h)
    \/ \E h \in HandleArgs : bmb_sb_clear(h)

SpecSBArgs == Init /\ [][NextSBArgs]_vars

Next == NextVec \/ NextStr \/ NextPool \/ NextImm \/ NextEq \/ NextSB \/ NextSBs \/ NextSBArgs

Spec == Init /\ [][Next]_vars

----------------------------------------------------------------------------
(* Vector claims *)

\* capacity and length as loaded through the caller's handle: vec[0], vec[1]
CapOf == heap[vec].w[1]
LenOf == heap[vec].w[2]

\* the block that holds the vector's storage, wherever realloc has put it
LiveAddr == {a \in Addr : heap[a].live}
StorageW == heap[CHOOSE a \in LiveAddr : TRUE].w

\* C1: for every sequence of n pushes through one handle on a vector created
\* by new(), the handle stays the valid identity of the vector: it refers to
\* live storage, len(handle) returns n and get(handle, i) returns the i-th
\* pushed value, also after growth reallocations.
C1_HandleSurvivesGrowth ==
    (~crashed /\ vec # NULL) =>
        /\ heap[vec].live
        /\ (op = "len" => ret = Len(shadow))
        /\ (op = "get" => ret = shadow[arg[1] + 1])

\* C2: in every reachable state of a vector 0 <= length <= capacity.
C2_LengthWithinCapacity ==
    (~crashed /\ HeaderOK) => (0 <= LenOf /\ LenOf <= CapOf)

\* C3: push grows exactly when length = capacity, to twice the capacity or to
\* 1 when the capacity is 0, keeping the elements at their indices; when
\* length < capacity push leaves the capacity unchanged.
C3_PushGrowthPolicy ==
    [][(op' = "push" /\ ~crashed' /\ HeaderOK /\ HeaderOK') =>
          IF LenOf = CapOf
          THEN /\ CapOf' = (IF CapOf = 0 THEN 1 ELSE 2 * CapOf)
               /\ \A i \in 1..LenOf :
                     heap'[vec'].w[VEC_HEADER_WORDS + i] = heap[vec].w[VEC_HEADER_WORDS + i]
          ELSE CapOf' = CapOf]_vars

\* C4: pop on a vector of length 0 returns 0 and changes nothing; push(v, x)
\* immediately followed by pop(v) returns x and restores the length that held
\* before the push, also when the push triggered growth.  (Stated for the
\* runs in which every access up to and including the push was defined.)
C4_PushThenPop ==
    [][(op' = "pop" /\ ~crashed' /\ ~ub) =>
          /\ (HeaderOK /\ LenOf = 0) => (ret' = 0 /\ heap' = heap)
          /\ (op = "push") =>
                /\ ret' = arg[1]
                /\ heap'[vec'].live
                /\ heap'[vec'].w[2] = Len(shadow')]_vars

\* C5: withCapacity(cap) returns a vector of length 0 and capacity max(cap, 0)
\* for every integer cap, negative ones included.
C5_WithCapacityClamps ==
    (op = "with_capacity" /\ ~crashed) =>
        /\ ReadWord(0) = {IF arg[1] > 0 THEN arg[1] ELSE 0}
        /\ ReadWord(1) = {0}

\* C6: over push, pop, set and clear on a live vector the capacity never
\* decreases from one state to the next, and clear sets the length to 0 and
\* leaves the capacity and the contents of the storage slots unchanged.
C6_CapacityNeverShrinks ==
    [][(LiveAddr # {} /\ LiveAddr' # {} /\ Len(StorageW) >= VEC_HEADER_WORDS) =>
          /\ Len(StorageW') >= VEC_HEADER_WORDS
          /\ StorageW'[1] >= StorageW[1]
          /\ (op' = "clear" /\ HeaderOK) =>
                /\ LenOf' = 0
                /\ CapOf' = CapOf
                /\ Len(heap'[vec'].w) = Len(heap[vec].w)
                /\ \A i \in (VEC_HEADER_WORDS + 1)..Len(heap[vec].w) :
                      heap'[vec'].w[i] = heap[vec].w[i]]_vars

\* a grown vector that held elements has been cleared: its slots still hold them
C6_Witness ==
    /\ op = "clear" /\ HeaderOK
    /\ CapOf = 4 /\ LenOf = 0
    /\ heap[vec].w[VEC_HEADER_WORDS + 3] \in Values

----------------------------------------------------------------------------
(* String and intern-pool claims *)

Producers == {"string_new", "from_cstr", "slice", "concat", "chr", "sb_build"}

\* the bytes a string holds: data[0 .. len); none for an absent string
Bytes(o) == IF o = Absent THEN <<>> ELSE [i \in 1..o.len |-> o.data[i]]

\* a usable string object: len bytes followed by the terminator, cap = len + 1
WellFormed(o) ==
    /\ o.len >= 0
    /\ Len(o.data) = o.len + 1
    /\ o.data[o.len + 1] = 0
    /\ o.cap = o.len + 1

Min(a, b) == IF a < b THEN a ELSE b

\* the bytes of o at indices [max(start, 0), min(end, len)), none when that range is empty
RangeBytes(o, start, end) ==
    LET lo == IF start > 0 THEN start ELSE 0
        hi == Min(end, Len(Bytes(o)))
    IN  [i \in 1..(hi - lo) |-> Bytes(o)[lo + i]]

\* the bytes of the fragments 1..n of builder sb, in insertion order
RECURSIVE FragmentBytes(_, _)
FragmentBytes(sb, n) ==
    IF n <= 0 THEN <<>>
    ELSE FragmentBytes(sb, n - 1)
           \o SubSeq(fbuf[sb.fragments[n]].data, 1, Len(fbuf[sb.fragments[n]].data) - 1)

\* the content the operation o called with arguments a has to return
ExpectedBytes(o, a) ==
    CASE o = "string_new" -> SubSeq(a[1], 1, a[2])
      [] o = "from_cstr"  -> SubSeq(a[1], 1, Len(a[1]) - 1)
      [] o = "slice"      -> RangeBytes(Obj(a[1]), a[2], a[3])
      [] o = "concat"     -> Bytes(Obj(a[1])) \o Bytes(Obj(a[2]))
      [] o = "chr"        -> <<a[1] % 256>>
      [] o = "sb_build"   -> IF a[1] < 0 \/ a[1] >= Len(builders) THEN <<>>
                             ELSE FragmentBytes(builders[a[1] + 1], builders[a[1] + 1].count)

\* C7: when the intern pool already holds its maximum number of entries,
\* every string-producing operation still returns a new string with correct
\* content and length and leaves the pool's count and entries unchanged.
C7_FullPoolStillProduces ==
    [][(Len(string_pool) = MAX_STRINGS /\ op' \in Producers /\ ~crashed') =>
          /\ ret' = Len(strs) + 1
          /\ strs' = Append(strs, strs'[ret'])
          /\ WellFormed(strs'[ret'])
          /\ Bytes(strs'[ret']) = ExpectedBytes(op', arg')
          /\ string_pool' = string_pool]_vars

\* a builder with fragments was built into a string beyond the pool's ceiling
C7_Witness ==
    /\ ~crashed /\ op = "sb_build"
    /\ Len(strs) = MAX_STRINGS + 1 /\ ret = Len(strs)
    /\ Len(string_pool) = MAX_STRINGS
    /\ strs[ret].len > 0

\* C8: the intern pool is append-only and bounded: its count stays within
\* 0 .. ceiling, a stored entry is never removed or overwritten, and below the
\* ceiling each string created by a producing operation appends exactly one
\* entry referring to the new instance.
C8_PoolAppendOnly ==
    [][/\ Len(string_pool') <= MAX_STRINGS
       /\ Len(string_pool) <= Len(string_pool')
       /\ SubSeq(string_pool', 1, Len(string_pool)) = string_pool
       /\ (op' \in Producers /\ ~crashed') =>
             /\ Len(strs') = Len(strs) + 1 /\ ret' = Len(strs')
             /\ Len(string_pool) < MAX_STRINGS => string_pool' = Append(string_pool, ret')
       /\ strs' = strs => string_pool' = string_pool]_vars

\* the string built from a builder was registered as the pool's last entry
C8_Witness ==
    /\ ~crashed /\ op = "sb_build" /\ arg = <<0>>
    /\ strs[ret].len > 0
    /\ Len(string_pool) = MAX_STRINGS
    /\ string_pool[MAX_STRINGS] = ret

\* an absent operand stands for the empty string
OrEmpty(o) == IF o = Absent THEN StringNew(EmptyCStr, 0) ELSE o

\* C9: for any two strings A and B, absent and empty ones included,
\* len(concat(A,B)) = len(A) + len(B), slice(concat(A,B), 0, len(A)) equals A
\* and slice(concat(A,B), len(A), len(A)+len(B)) equals B.
C9_ConcatSliceRoundTrip ==
    \A a \in StrRefs : \A b \in StrRefs :
        LET A  == Obj(a)
            B  == Obj(b)
            c  == ConcatObj(A, B)
            la == bmb_string_len(A)
            lb == bmb_string_len(B)
        IN  /\ bmb_string_len(c) = la + lb
            /\ WellFormed(c)
            /\ bmb_string_eq(SliceObj(c, 0, la), OrEmpty(A))
            /\ bmb_string_eq(SliceObj(c, la, la + lb), OrEmpty(B))
            /\ Bytes(c) = Bytes(A) \o Bytes(B)

\* "a" and "b" were concatenated into "ab"
C9_Witness ==
    /\ ~crashed /\ op = "concat"
    /\ arg[1] # NULL /\ arg[2] # NULL
    /\ Bytes(strs[arg[1]]) = <<97>> /\ Bytes(strs[arg[2]]) = <<98>>
    /\ Bytes(strs[ret]) = <<97, 98>>

\* C10: slice(s, start, end) returns exactly the bytes of s at indices
\* [max(start,0), min(end,len(s))) when that range is non-empty and the empty
\* string otherwise, for negative, too large and inverted bounds; it reads
\* only indices in [0, len(s)) of s; for an absent s it returns the empty string.
C10_SliceClamps ==
    \A s \in StrRefs : \A st \in SliceArgs : \A en \in SliceArgs :
        LET r == SliceObj(Obj(s), st, en) IN
        /\ WellFormed(r)
        /\ Bytes(r) = RangeBytes(Obj(s), st, en)
        /\ s = NULL => r.len = 0
        /\ (s # NULL /\ SliceStart(st) < SliceEnd(strs[s].len, en)) =>
              (0 <= SliceStart(st) /\ SliceEnd(strs[s].len, en) <= strs[s].len)

\* slice("ab", -1, 3) returned "ab"
C10_Witness ==
    /\ ~crashed /\ op = "slice"
    /\ arg[1] # NULL /\ arg[2] < 0 /\ arg[3] > strs[arg[1]].len
    /\ Bytes(strs[ret]) = <<97, 98>>

----------------------------------------------------------------------------
(* Value semantics of the strings *)

\* C11: no string operation mutates an existing string: over new, slice,
\* concat, chr, equals, charAt and the builder's push, build and clear, every
\* string created earlier keeps its address, length and bytes, and every
\* string that exists has capacity >= length + 1 and the terminator at index
\* length.
C11_StringsImmutable ==
    [][/\ Len(strs') >= Len(strs)
       /\ \A i \in 1..Len(strs) :
             /\ strs'[i].len = strs[i].len
             /\ strs'[i].data = strs[i].data
       /\ \A i \in 1..Len(strs') :
             /\ strs'[i].len >= 0
             /\ strs'[i].cap >= strs'[i].len + 1
             /\ Len(strs'[i].data) >= strs'[i].len + 1
             /\ strs'[i].data[strs'[i].len + 1] = 0]_vars

\* "ab" was pushed to a builder, built into a second string, and the builder
\* cleared: the copy is released and "ab" is still there
C11_Witness ==
    /\ ~crashed /\ op = "sb_clear" /\ ret = 0
    /\ Len(strs) = MaxStrs
    /\ \E i \in 1..Len(strs) : \E j \in 1..Len(strs) : \E f \in 1..Len(fbuf) :
          /\ i < j
          /\ strs[i].data = <<97, 98, 0>> /\ strs[j].data = <<97, 98, 0>>
          /\ fbuf[f].data = <<97, 98, 0>> /\ ~fbuf[f].live

----------------------------------------------------------------------------
(* Builder claims *)

\* C12: bmb_sb_new returns the handles 0, 1, 2, ... in this order, so they
\* are pairwise distinct and no handle is given out twice; the table never
\* shrinks and only bmb_sb_new adds to it; once the table holds its maximum
\* number of builders, every further call returns a negative value and leaves
\* the table, the builders and their fragments unchanged.
C12_HandlesSequential ==
    [][/\ Len(builders') >= Len(builders)
       /\ Len(builders') <= MAX_STRING_BUILDERS
       /\ op' # "sb_new" => Len(builders') = Len(builders)
       /\ (op' = "sb_new" /\ ~crashed') =>
             IF Len(builders) < MAX_STRING_BUILDERS
             THEN /\ ret' = Len(builders)
                  /\ Len(builders') = Len(builders) + 1
                  /\ SubSeq(builders', 1, Len(builders)) = builders
                  /\ builders'[ret' + 1].count = 0
                  /\ fbuf' = fbuf
             ELSE /\ ret' < 0
                  /\ builders' = builders
                  /\ fbuf' = fbuf]_vars

\* the table is full, a builder holds a fragment, and a further call was refused
C12_Witness ==
    /\ ~crashed /\ op = "sb_new" /\ ret < 0
    /\ Len(builders) = MAX_STRING_BUILDERS
    /\ \E h \in 1..Len(builders) : builders[h].count > 0

\* C13: for a handle that is negative or that bmb_sb_new has not returned
\* yet, push returns -1, totalLength returns 0, build returns an empty string
\* and clear returns -1; push with a valid handle and an absent string returns
\* -1; in each of these cases no builder and no fragment changes.
C13_InvalidArgumentsRejected ==
    [][/\ (op' = "sb_push" /\ (BadHandle(arg'[1]) \/ arg'[2] = NULL)) =>
             /\ ret' = 0 - 1 /\ ~crashed'
             /\ builders' = builders /\ fbuf' = fbuf
       /\ (op' = "sb_len" /\ BadHandle(arg'[1])) =>
             /\ ret' = 0
             /\ builders' = builders /\ fbuf' = fbuf
       /\ (op' = "sb_build" /\ BadHandle(arg'[1]) /\ ~crashed') =>
             /\ ret' = Len(strs) + 1
             /\ strs'[ret'].len = 0 /\ strs'[ret'].data = <<0>>
             /\ builders' = builders /\ fbuf' = fbuf
       /\ (op' = "sb_clear" /\ BadHandle(arg'[1])) =>
             /\ ret' = 0 - 1
             /\ builders' = builders /\ fbuf' = fbuf]_vars

\* an absent string was pushed to a builder that holds a fragment, and refused
C13_Witness ==
    /\ ~crashed /\ op = "sb_push" /\ ret = 0 - 1
    /\ ~BadHandle(arg[1]) /\ arg[2] = NULL
    /\ builders[arg[1] + 1].count = 1

\* the concatenation of a sequence of byte sequences
RECURSIVE Flatten(_)
Flatten(ss) == IF ss = <<>> THEN <<>> ELSE Head(ss) \o Flatten(Tail(ss))

\* C14: for a valid builder, after any sequence of successful pushes since
\* its creation or its last clear, totalLength is the sum of the lengths of
\* the pushed strings, and build returns a well-formed string of that length
\* whose bytes are the concatenation of the pushed strings in insertion
\* order; also with empty fragments and after the fragment table has grown.
C14_BuildConcatenates ==
    /\ \A h \in Handles :
          /\ builders[h + 1].count = Len(pushed[h + 1])
          /\ SbLen(h) = Len(Flatten(pushed[h + 1]))
    /\ (op = "sb_len" /\ ~BadHandle(arg[1])) => ret = Len(Flatten(pushed[arg[1] + 1]))
    /\ (op = "sb_build" /\ ~crashed /\ ~BadHandle(arg[1])) =>
          /\ WellFormed(strs[ret])
          /\ strs[ret].len = SbLen(arg[1])
          /\ Bytes(strs[ret]) = Flatten(pushed[arg[1] + 1])

\* "ab", "" and "ab" were pushed, the table grew twice, and build returned "abab"
C14_Witness ==
    /\ ~crashed /\ op = "sb_build" /\ arg = <<0>>
    /\ pushed[1] = <<<<97, 98>>, <<>>, <<97, 98>>>>
    /\ builders[1].capacity = 4 * SB_INITIAL_CAP
    /\ Bytes(strs[ret]) = <<97, 98, 97, 98>>

\* C15: build does not consume or modify the builder: it leaves the count,
\* the capacity, the fragments and their lengths as they were; two builds
\* of one builder with nothing in between return strings of equal length and
\* content; a push after a build keeps the fragments that were built and adds
\* the pushed string after them.
C15_BuildKeepsBuilder ==
    [][/\ op' = "sb_build" => (builders' = builders /\ fbuf' = fbuf)
       /\ (op = "sb_build" /\ op' = "sb_build" /\ arg' = arg /\ ~crashed') =>
             /\ ret' # ret
             /\ strs'[ret'].len = strs[ret].len
             /\ Bytes(strs'[ret']) = Bytes(strs[ret])
       /\ (op = "sb_build" /\ op' = "sb_push" /\ arg'[1] = arg[1]
              /\ ret' = 0 /\ ~crashed') =>
             LET sb == builders[arg[1] + 1] IN
             /\ builders'[arg[1] + 1].count = sb.count + 1
             /\ \A i \in 1..sb.count :
                   /\ builders'[arg[1] + 1].fragments[i] = sb.fragments[i]
                   /\ builders'[arg[1] + 1].lengths[i] = sb.lengths[i]
             /\ Bytes(BuildObj(arg[1])') = Bytes(strs[ret]) \o Bytes(strs[arg'[2]])]_vars

\* "a" was pushed twice and the builder was built twice: both results are "aa"
C15_Witness ==
    /\ ~crashed /\ op = "sb_build" /\ Len(strs) = 3 /\ ret = 3
    /\ strs[1].data = <<97, 0>>
    /\ strs[2].data = <<97, 97, 0>> /\ strs[3].data = <<97, 97, 0>>
    /\ builders[1].count = 2

\* C16: clear on a valid builder returns 0, sets the count to 0 and keeps the
\* fragment table and its (possibly grown) capacity; right after it
\* totalLength is 0 and build returns the empty string; a push that follows
\* starts a fresh sequence: the builder then holds that one string only.
C16_ClearResets ==
    [][\A h \in Handles :
          /\ (op' = "sb_clear" /\ arg' = <<h>>) =>
                /\ ret' = 0
                /\ builders'[h + 1].count = 0
                /\ builders'[h + 1].capacity = builders[h + 1].capacity
                /\ Len(builders'[h + 1].fragments) = Len(builders[h + 1].fragments)
                /\ Len(builders'[h + 1].lengths) = Len(builders[h + 1].lengths)
                /\ SbLen(h)' = 0
                /\ BuildObj(h)' = StringNew(EmptyCStr, 0)
          /\ (op = "sb_clear" /\ arg = <<h>> /\ op' = "sb_push" /\ arg'[1] = h
                 /\ ret' = 0 /\ ~crashed') =>
                /\ builders'[h + 1].count = 1
                /\ SbLen(h)' = strs[arg'[2]].len
                /\ Bytes(BuildObj(h)') = Bytes(strs[arg'[2]])]_vars

\* a builder that had grown was cleared, "a" was pushed and built: the result
\* is "a" and the capacity is the grown one
C16_Witness ==
    /\ ~crashed /\ op = "sb_build" /\ arg = <<0>>
    /\ \E f \in 1..Len(fbuf) : ~fbuf[f].live
    /\ builders[1].capacity = 2 * SB_INITIAL_CAP /\ builders[1].count = 1
    /\ Bytes(strs[ret]) = <<97>>

\* C17: every builder has 0 <= count <= capacity in every state; its capacity
\* is the initial one at creation, never decreases, and changes only in a
\* push made when count = capacity, which doubles it; tables that were
\* allocated hold capacity slots.
C17_CountWithinCapacity ==
    [][\A h \in 1..Len(builders') :
          LET new == builders'[h] IN
          /\ 0 <= new.count /\ new.count <= new.capacity
          /\ new.fragments # NoTable => Len(new.fragments) = new.capacity
          /\ new.lengths # NoTable => Len(new.lengths) = new.capacity
          /\ IF h > Len(builders)
             THEN new.capacity = SB_INITIAL_CAP /\ new.count = 0
             ELSE LET old == builders[h] IN
                  /\ new.capacity >= old.capacity
                  /\ new.capacity # old.capacity =>
                        /\ op' = "sb_push" /\ arg'[1] = h - 1
                        /\ old.count = old.capacity
                        /\ new.capacity = 2 * old.capacity
                  /\ (op' = "sb_push" /\ arg'[1] = h - 1 /\ ret' = 0 /\ ~crashed'
                         /\ old.count = old.capacity) =>
                        new.capacity = 2 * old.capacity]_vars

\* the third push into a full table of two slots: the capacity doubled again
C17_Witness ==
    /\ ~crashed /\ op = "sb_push" /\ ret = 0
    /\ builders[arg[1] + 1].count = 2 * SB_INITIAL_CAP + 1
    /\ builders[arg[1] + 1].capacity = 4 * SB_INITIAL_CAP

----------------------------------------------------------------------------
(* Equality of strings *)

\* C18: equals is reflexive and symmetric: equals(s, s) holds for every
\* constructed string, the empty one included; equals(a, b) = equals(b, a) for
\* all a and b, absent ones included; two absent operands are equal, an absent
\* and a present one are unequal, and two present operands are equal exactly
\* when their lengths and their bytes coincide.
C18_EqualsIsEquivalence ==
    /\ \A a \in StrRefs : \A b \in StrRefs :
          LET A == Obj(a)
              B == Obj(b)
          IN  /\ bmb_string_eq(A, A)
              /\ bmb_string_eq(A, B) = bmb_string_eq(B, A)
              /\ (a = NULL /\ b = NULL) => bmb_string_eq(A, B)
              /\ ((a = NULL) # (b = NULL)) => ~bmb_string_eq(A, B)
              /\ (a # NULL /\ b # NULL) =>
                    (bmb_string_eq(A, B) <=> (A.len = B.len /\ Bytes(A) = Bytes(B)))
    /\ op = "string_eq" =>
          /\ ret \in {0, 1}
          /\ ret = 1 <=> \/ arg[1] = NULL /\ arg[2] = NULL
                         \/ /\ arg[1] # NULL /\ arg[2] # NULL
                            /\ Bytes(strs[arg[1]]) = Bytes(strs[arg[2]])

\* two distinct instances that both hold "b" were compared and found equal,
\* next to a string of another length
C18_Witness ==
    /\ ~crashed /\ op = "string_eq" /\ ret = 1
    /\ arg[1] # NULL /\ arg[2] # NULL /\ arg[1] # arg[2]
    /\ Bytes(strs[arg[1]]) = <<98>>
    /\ \E i \in 1..Len(strs) : strs[i].len # 1

----------------------------------------------------------------------------
(* Allocation failure and release of fragments *)

\* C19: when a raw allocation fails inside an operation, the process
\* terminates at once: the step that ends the process stores through no failed
\* result (it executes no undefined behaviour), and no operation returns with a
\* container that holds the failed result, here a builder whose fragment or
\* length table is NULL.
C19_AllocationFailureTerminates ==
    [][/\ (crashed' /\ ~crashed) => ub' = ub
       /\ \A h \in 1..Len(builders') :
             /\ builders'[h].fragments # NoTable
             /\ builders'[h].lengths # NoTable]_vars

\* the slots in use: builder h (1-based), slot i <= count
Slots == UNION {{<<h, i>> : i \in 1..builders[h].count} : h \in 1..Len(builders)}
SlotAddr(x) == builders[x[1]].fragments[x[2]]

\* C20: over push, build and clear on any builders, every fragment copy is
\* released at most once and never read after its release: in every state the
\* slots below count of all builders hold pairwise distinct copies, and the
\* copies not yet released are exactly the ones these slots hold, so that
\* clear has released exactly the copies of its builder's slots [0, count) and
\* left count at 0, and a second clear or a build after a clear finds no
\* released copy; no release of a released copy and no read of one has
\* happened.
C20_FragmentsReleasedOnce ==
    /\ \A x \in Slots : SlotAddr(x) \in 1..Len(fbuf) /\ fbuf[SlotAddr(x)].live
    /\ \A x \in Slots : \A y \in Slots : SlotAddr(x) = SlotAddr(y) => x = y
    /\ \A f \in 1..Len(fbuf) : fbuf[f].live => \E x \in Slots : SlotAddr(x) = f
    /\ (op = "sb_clear" /\ ~BadHandle(arg[1])) => builders[arg[1] + 1].count = 0
    /\ ~crashed => ~ub

\* both copies were released, the builder was cleared again and then built
C20_Witness ==
    /\ ~crashed /\ ~ub /\ op = "sb_build" /\ ~BadHandle(arg[1])
    /\ Len(fbuf) = MaxFrags
    /\ \A f \in 1..Len(fbuf) : ~fbuf[f].live
    /\ strs[ret].len = 0

====
